---- MODULE Spec2Model ----
(***************************************************************************)
(* State-machine model of the iCloud photo sync tool:                      *)
(*   - BaseConfig (config.py): the lazily resolved credentials, the        *)
(*     keyring-backed credential store and validate();                     *)
(*   - iCloudClient (icloud_client.py): authenticate, is_authenticated,    *)
(*     list_photos and download_photo against the remote collaborator.     *)
(* Python's Optional[str] is modelled as a sequence of length <= 1:        *)
(* <<>> is None and <<s>> is the string s.                                 *)
(***************************************************************************)
EXTENDS Integers, Sequences, FiniteSets, TLC

VARIABLES
    cfg,          \* the BaseConfig fields read from the environment
    keyring,      \* the OS credential store: service -> key -> Optional[str]
    dbDir,        \* the database parent directory on disk
    storeOps,     \* store/delete calls made so far
    api,          \* iCloudClient._api: is a PyiCloudService held?
    photosState,  \* what the remote does when _api.photos is read
    library,      \* the remote photo library, in the remote's order
    gen,          \* the generator returned by list_photos()
    fs,           \* the destination files of download_photo
    requested,    \* the assets whose bytes were requested from the remote
    sync,         \* the sync pass: its position, its count and its attempts
    res           \* what the last operation did and returned

configVars == <<cfg, keyring, dbDir, storeOps>>
clientVars == <<api, photosState, library, gen>>
diskVars == <<fs, requested>>
vars == <<cfg, keyring, dbDir, storeOps, api, photosState, library, gen, fs,
          requested, sync, res>>

(***************************************************************************)
(* Bounds of the model.                                                    *)
(***************************************************************************)
\* how many store/delete calls one behaviour makes on the keyring
MaxStoreOps == 3
\* the longest remote library
MaxPhotos == 3
\* the number of distinct assets handed to download_photo
MaxAssets == 2
\* the longest album filter list
MaxAlbumNames == 2

(***************************************************************************)
(* Program constants.                                                      *)
(***************************************************************************)
ICLOUD_KEYRING_SERVICE_NAME == "icloud-photo-sync"
PUSHOVER_KEYRING_SERVICE_NAME == "pushover-photo-sync"
Services == {ICLOUD_KEYRING_SERVICE_NAME, PUSHOVER_KEYRING_SERVICE_NAME}

\* the fixed key names under which the identity of each namespace is kept
ICLOUD_IDENTITY_KEY == "username"
PUSHOVER_IDENTITY_KEY == "user_key"

\* the strings of the model: keyring keys and values
Str == {"", "username", "user_key", "alice", "bob", "pw1"}
\* the identity values stored in a namespace: empty, two ordinary ones and
\* the namespace's own fixed key name
Idents(identityKey) == {"", "alice", "bob", identityKey}
Secrets == {"", "pw1"}

None == <<>>
Some(s) == <<s>>
OptStr == {None} \cup {Some(s) : s \in Str}

\* Python truthiness of an Optional[str]: `not v`
Falsy(v) == v = None \/ v = Some("")
\* `v or ""`
OrEmpty(v) == IF Falsy(v) THEN "" ELSE v[1]

\* the outcome of a property access: a returned string or a raised ValueError
Returned(s) == [raised |-> FALSE, value |-> s]
Raised == [raised |-> TRUE, value |-> ""]

EmptyStore == [k \in Str |-> None]
EmptyKeyring == [s \in Services |-> EmptyStore]

(***************************************************************************)
(* The credential store (python keyring), a key-value store per service.   *)
(* Every call may raise (backend locked or unavailable): `fails`.          *)
(***************************************************************************)
\* keyring.get_password inside try/except Exception: None when the call raises
get_password_or_none(service, key, fails) ==
    IF fails THEN None ELSE keyring[service][key]

set_password(kr, service, key, value) ==
    [kr EXCEPT ![service][key] = Some(value)]

delete_password(kr, service, key) ==
    [kr EXCEPT ![service][key] = None]

(***************************************************************************)
(* BaseConfig: lazily resolved credentials.                                *)
(***************************************************************************)
icloud_get_username_from_store(f) ==
    get_password_or_none(ICLOUD_KEYRING_SERVICE_NAME, ICLOUD_IDENTITY_KEY, f)

icloud_username(f) ==
    LET v == icloud_get_username_from_store(f)
    IN  IF Falsy(v) /\ cfg.enable_pushover THEN Raised ELSE Returned(OrEmpty(v))

\* the lookup key is self.icloud_username, evaluated inside the try block:
\* its ValueError is swallowed by `except Exception`
icloud_get_password_from_store(f1, f2) ==
    LET u == icloud_username(f1)
    IN  IF u.raised THEN None
        ELSE get_password_or_none(ICLOUD_KEYRING_SERVICE_NAME, u.value, f2)

icloud_password(f1, f2) ==
    LET v == icloud_get_password_from_store(f1, f2)
    IN  IF Falsy(v) /\ cfg.enable_pushover THEN Raised ELSE Returned(OrEmpty(v))

pushover_get_user_key_from_store(f) ==
    get_password_or_none(PUSHOVER_KEYRING_SERVICE_NAME, PUSHOVER_IDENTITY_KEY, f)

\* a user key that is required whether or not notifications are enabled
pushover_user_key_always_required(f) ==
    LET v == pushover_get_user_key_from_store(f)
    IN  IF Falsy(v) THEN Raised ELSE Returned(OrEmpty(v))

pushover_user_key(f) ==
    LET v == pushover_get_user_key_from_store(f)
    IN  IF Falsy(v) /\ cfg.enable_pushover THEN Raised ELSE Returned(OrEmpty(v))

pushover_get_api_token_from_store(f1, f2) ==
    LET u == pushover_user_key(f1)
    IN  IF u.raised THEN None
        ELSE get_password_or_none(PUSHOVER_KEYRING_SERVICE_NAME, u.value, f2)

pushover_api_token(f1, f2) ==
    LET v == pushover_get_api_token_from_store(f1, f2)
    IN  IF Falsy(v) /\ cfg.enable_pushover THEN Raised ELSE Returned(OrEmpty(v))

(***************************************************************************)
(* Python floats (IEEE-754 binary64), as BaseConfig.__init__ parses the    *)
(* two intervals and validate() multiplies and compares them.  A float is  *)
(* sign * mantissa * 2^(exp - 52): the 53-bit mantissa is kept in three    *)
(* limbs <<17 bits, 18 bits, 18 bits>>, most significant first, and a      *)
(* non-zero float has the top bit of its mantissa set.                     *)
(***************************************************************************)
\* a decimal literal of the environment: num / 10^scale
Dec(num, scale) == [num |-> num, scale |-> scale]

Abs(n) == IF n < 0 THEN -n ELSE n
Sign(n) == IF n < 0 THEN -1 ELSE IF n = 0 THEN 0 ELSE 1
Limb == 2^18
\* the number of binary digits of n > 0
BitLen(n) == CHOOSE b \in 1..30 : 2^(b - 1) <= n /\ n < 2^b

Float(sign, exp, mant) == [sign |-> sign, exp |-> exp, mant |-> mant]
FloatZero == Float(0, 0, <<0, 0, 0>>)

\* the next float away from zero: mantissa + 1, and a mantissa that
\* reaches 2^53 becomes 2^52 with the exponent one higher
float_next(sign, exp, mant) ==
    LET l == mant[3] + 1
        m == mant[2] + (IF l = Limb THEN 1 ELSE 0)
        h == mant[1] + (IF m = Limb THEN 1 ELSE 0)
    IN  IF h = 2^17 THEN Float(sign, exp + 1, <<2^16, 0, 0>>)
        ELSE Float(sign, exp, <<h, m % Limb, l % Limb>>)

\* float("<literal>"): the float nearest to num / 10^scale, ties to even,
\* by long division in base 2
float_of(lit) ==
    IF lit.num = 0 THEN FloatZero
    ELSE LET n == Abs(lit.num)
             d == 10^lit.scale
             \* 1 <= (n * 2^s) / d < 2
             s == CHOOSE k \in -12..12 :
                      LET nk == IF k > 0 THEN n * 2^k ELSE n
                          dk == IF k < 0 THEN d * 2^(-k) ELSE d
                      IN  dk <= nk /\ nk < 2 * dk
             n1 == IF s > 0 THEN n * 2^s ELSE n
             d1 == IF s < 0 THEN d * 2^(-s) ELSE d
             r0 == n1 - d1
             h == 2^16 + ((r0 * 2^16) \div d1)
             r1 == (r0 * 2^16) % d1
             m == (r1 * Limb) \div d1
             r2 == (r1 * Limb) % d1
             l == (r2 * Limb) \div d1
             r3 == (r2 * Limb) % d1
             up == 2 * r3 > d1 \/ (2 * r3 = d1 /\ l % 2 = 1)
         IN  IF up THEN float_next(Sign(lit.num), -s, <<h, m, l>>)
             ELSE Float(Sign(lit.num), -s, <<h, m, l>>)

\* x * k for an int k, 0 < k < 2^12: the exact product x.mant * k rounded
\* to 53 bits, ties to even
float_mul(x, k) ==
    IF x.sign = 0 THEN FloatZero
    ELSE LET p0 == x.mant[3] * k
             p1 == x.mant[2] * k + (p0 \div Limb)
             p2 == x.mant[1] * k + (p1 \div Limb)
             \* the product has 36 + BitLen(p2) bits: sh of them are dropped
             sh == BitLen(p2) - 17
             l == ((p0 % Limb) \div 2^sh) + ((p1 % 2^sh) * 2^(18 - sh))
             m == ((p1 % Limb) \div 2^sh) + ((p2 % 2^sh) * 2^(18 - sh))
             h == p2 \div 2^sh
             rest == p0 % 2^sh
             up == sh > 0 /\ (2 * rest > 2^sh \/ (2 * rest = 2^sh /\ l % 2 = 1))
         IN  IF up THEN float_next(x.sign, x.exp + sh, <<h, m, l>>)
             ELSE Float(x.sign, x.exp + sh, <<h, m, l>>)

magnitude_le(a, b) ==
    \/ a.exp < b.exp
    \/ /\ a.exp = b.exp
       /\ \/ a.mant[1] < b.mant[1]
          \/ a.mant[1] = b.mant[1] /\ a.mant[2] < b.mant[2]
          \/ a.mant[1] = b.mant[1] /\ a.mant[2] = b.mant[2] /\ a.mant[3] <= b.mant[3]

\* a <= b
float_le(a, b) ==
    IF a.sign # b.sign THEN a.sign < b.sign
    ELSE IF a.sign = 0 THEN TRUE
    ELSE IF a.sign = 1 THEN magnitude_le(a, b)
    ELSE magnitude_le(b, a)

(***************************************************************************)
(* BaseConfig.database_path as validate() uses it: the directory is        *)
(* created when missing (mkdir parents, exist_ok), which may raise         *)
(* OSError; os.access then tells whether it is writable.                   *)
(***************************************************************************)
DbDirStates == {"absent", "writable", "readonly", "error"}

database_dir_after_mkdir(d) == IF d = "absent" THEN "writable" ELSE d

MSG_USERNAME == "icloud_username is required (store in keyring)"
MSG_PASSWORD == "icloud_password is required (store in keyring)"
MSG_LOG_LEVEL == "Invalid LOG_LEVEL"
MSG_API_TOKEN == "PUSHOVER_API_TOKEN is required when ENABLE_PUSHOVER=true"
MSG_USER_KEY == "PUSHOVER_USER_KEY is required when ENABLE_PUSHOVER=true"
MSG_ALBUMS == "At least one of INCLUDE_PERSONAL_ALBUMS or INCLUDE_SHARED_ALBUMS must be true"
MSG_EXECUTION_MODE == "Invalid EXECUTION_MODE"
MSG_SYNC_INTERVAL == "SYNC_INTERVAL_MINUTES must be bigger than 0 minutes"
MSG_MAINTENANCE_INTERVAL == "MAINTENANCE_INTERVAL_HOURS must be bigger than 0 hours"
MSG_INTERVAL_RATIO == "MAINTENANCE_INTERVAL_HOURS * 60 must be bigger than SYNC_INTERVAL_MINUTES"
MSG_DB_NOT_WRITABLE == "Database directory is not writable"
MSG_DB_INVALID == "Invalid database path configuration"

When(cond, msg) == IF cond THEN <<msg>> ELSE <<>>

\* a property read inside try/except ValueError followed by `if not value`
Missing(acc) == acc.raised \/ acc.value = ""

(***************************************************************************)
(* BaseConfig.validate: the list `errors` in the order the checks append   *)
(* to it.  f[1..6] are the outcomes (raises or not) of the six keyring     *)
(* reads the credential checks make, in program order.                     *)
(***************************************************************************)
\* lines 137-169: the credential checks and the log level between them
credential_errors(f) ==
       When(Missing(icloud_username(f[1])), MSG_USERNAME)
    \o When(Missing(icloud_password(f[2], f[3])), MSG_PASSWORD)
    \o When(cfg.log_level \notin {"DEBUG", "INFO", "WARNING", "ERROR"}, MSG_LOG_LEVEL)
    \o (IF cfg.enable_pushover
        THEN    When(Missing(pushover_api_token(f[4], f[5])), MSG_API_TOKEN)
             \o When(Missing(pushover_user_key(f[6])), MSG_USER_KEY)
        ELSE <<>>)

\* lines 171-191: album flags, execution mode and the intervals
setting_errors ==
       When(~cfg.include_personal_albums /\ ~cfg.include_shared_albums, MSG_ALBUMS)
    \o When(cfg.execution_mode \notin {"single", "continuous"}, MSG_EXECUTION_MODE)
    \o When(float_le(cfg.sync_interval_minutes, FloatZero), MSG_SYNC_INTERVAL)
    \o When(float_le(cfg.maintenance_interval_hours, FloatZero),
            MSG_MAINTENANCE_INTERVAL)
    \o When(float_le(float_mul(cfg.maintenance_interval_hours, 60),
                     cfg.sync_interval_minutes),
            MSG_INTERVAL_RATIO)

\* lines 193-201: the database directory
database_errors ==
       When(dbDir = "error", MSG_DB_INVALID)
    \o When(dbDir = "readonly", MSG_DB_NOT_WRITABLE)

\* a validate() that raises on the first failing check
validate_stops_at_first(f) ==
    LET all == credential_errors(f) \o setting_errors \o database_errors
    IN  IF all = <<>> THEN <<>> ELSE <<Head(all)>>

validate_errors(f) == credential_errors(f) \o setting_errors \o database_errors

(***************************************************************************)
(* What the last operation did and returned.                               *)
(***************************************************************************)
\* the keyring reads one operation makes, in program order: does each raise?
Reads == 1..7
NoFails == [i \in Reads |-> FALSE]
NoAsset == [id |-> 0, size |-> 0, shape |-> "none"]
NoRes == [op |-> "none", raised |-> FALSE, value |-> "", ret |-> FALSE,
          errors |-> <<>>, fails |-> NoFails, arg1 |-> "", arg2 |-> "",
          asset |-> NoAsset, after_failure |-> FALSE,
          queries |-> <<>>, remote |-> <<{}, {}>>]

Flags(f1, f2) == [i \in Reads |-> IF i = 1 THEN f1 ELSE IF i = 2 THEN f2 ELSE FALSE]

AccessResult(op, acc, f1, f2) ==
    [NoRes EXCEPT !.op = op, !.raised = acc.raised, !.value = acc.value,
                  !.fails = Flags(f1, f2)]

(***************************************************************************)
(* Operations of BaseConfig.                                               *)
(***************************************************************************)
\* the keyring reads of one validate() call: none raises, one of them raises,
\* or all of them raise (backend unavailable)
ReadFailures ==
    {NoFails, [i \in Reads |-> TRUE]} \cup {[i \in Reads |-> i = k] : k \in 1..6}

Validate ==
    \E f \in ReadFailures :
        LET errors == validate_errors(f)
        IN  /\ res' = [NoRes EXCEPT !.op = "validate", !.errors = errors,
                                    !.raised = (errors # <<>>), !.fails = f]
            /\ dbDir' = database_dir_after_mkdir(dbDir)
            /\ UNCHANGED <<cfg, keyring, storeOps, clientVars, diskVars, sync>>

GetIcloudUsername ==
    \E f \in BOOLEAN :
        /\ res' = AccessResult("icloud_username", icloud_username(f), f, FALSE)
        /\ UNCHANGED <<configVars, clientVars, diskVars, sync>>

GetIcloudPassword ==
    \E f1, f2 \in BOOLEAN :
        /\ res' = AccessResult("icloud_password", icloud_password(f1, f2), f1, f2)
        /\ UNCHANGED <<configVars, clientVars, diskVars, sync>>

GetPushoverUserKey ==
    \E f \in BOOLEAN :
        /\ res' = AccessResult("pushover_user_key", pushover_user_key(f), f, FALSE)
        /\ UNCHANGED <<configVars, clientVars, diskVars, sync>>

GetPushoverApiToken ==
    \E f1, f2 \in BOOLEAN :
        /\ res' = AccessResult("pushover_api_token", pushover_api_token(f1, f2), f1, f2)
        /\ UNCHANGED <<configVars, clientVars, diskVars, sync>>

\* failAt = 0: both set_password calls succeed; 1: the first raises;
\* 2: the second raises after the first was applied
store_credentials(kr, service, identityKey, identity, secret, failAt) ==
    IF failAt = 1 THEN kr
    ELSE IF failAt = 2 THEN set_password(kr, service, identityKey, identity)
    ELSE set_password(set_password(kr, service, identityKey, identity),
                      service, identity, secret)

StoreCredentials(op, service, identityKey) ==
    \E identity \in Idents(identityKey), secret \in Secrets, failAt \in 0..2 :
        /\ storeOps < MaxStoreOps
        /\ storeOps' = storeOps + 1
        /\ keyring' = store_credentials(keyring, service, identityKey, identity, secret, failAt)
        /\ res' = [NoRes EXCEPT !.op = op, !.ret = (failAt = 0),
                                !.arg1 = identity, !.arg2 = secret]
        /\ UNCHANGED <<cfg, dbDir, clientVars, diskVars, sync>>

IcloudStoreCredentials ==
    StoreCredentials("icloud_store_credentials", ICLOUD_KEYRING_SERVICE_NAME,
                     ICLOUD_IDENTITY_KEY)

PushoverStoreCredentials ==
    StoreCredentials("pushover_store_credentials", PUSHOVER_KEYRING_SERVICE_NAME,
                     PUSHOVER_IDENTITY_KEY)

\* failAt = 0: no keyring call raises; 1: get_password raises; 2: the first
\* delete_password raises; 3: the second raises after the first was applied.
\* A delete_password that does not raise leaves no entry under the key.
delete_credentials(service, identityKey, failAt) ==
    LET stored == keyring[service][identityKey]
    IN  IF failAt = 1 \/ Falsy(stored) \/ failAt = 2 THEN keyring
        ELSE IF failAt = 3 THEN delete_password(keyring, service, stored[1])
        ELSE delete_password(delete_password(keyring, service, stored[1]),
                             service, identityKey)

delete_credentials_ret(service, identityKey, failAt) ==
    LET stored == keyring[service][identityKey]
    IN  IF failAt = 1 THEN FALSE
        ELSE IF Falsy(stored) THEN TRUE
        ELSE failAt = 0

DeleteCredentials(op, service, identityKey) ==
    \E failAt \in 0..3 :
        /\ storeOps < MaxStoreOps
        /\ storeOps' = storeOps + 1
        /\ keyring' = delete_credentials(service, identityKey, failAt)
        /\ res' = [NoRes EXCEPT !.op = op,
                                !.ret = delete_credentials_ret(service, identityKey, failAt),
                                !.fails = [i \in Reads |-> i = failAt]]
        /\ UNCHANGED <<cfg, dbDir, clientVars, diskVars, sync>>

IcloudDeleteCredentials ==
    DeleteCredentials("icloud_delete_credentials", ICLOUD_KEYRING_SERVICE_NAME,
                      ICLOUD_IDENTITY_KEY)

PushoverDeleteCredentials ==
    DeleteCredentials("pushover_delete_credentials", PUSHOVER_KEYRING_SERVICE_NAME,
                      PUSHOVER_IDENTITY_KEY)

\* lines 274-281, no exception handler: f1 and f2 tell whether the two
\* get_password calls raise
has_stored_credentials(service, identityKey, f1, f2) ==
    LET stored == keyring[service][identityKey]
    IN  IF f1 THEN [raised |-> TRUE, ret |-> FALSE]
        ELSE IF Falsy(stored) THEN [raised |-> FALSE, ret |-> FALSE]
        ELSE IF f2 THEN [raised |-> TRUE, ret |-> FALSE]
        ELSE [raised |-> FALSE, ret |-> keyring[service][stored[1]] # None]

HasStoredCredentials(op, service, identityKey) ==
    \E f1, f2 \in BOOLEAN :
        LET out == has_stored_credentials(service, identityKey, f1, f2)
        IN  /\ res' = [NoRes EXCEPT !.op = op, !.raised = out.raised,
                                    !.ret = out.ret, !.fails = Flags(f1, f2)]
            /\ UNCHANGED <<configVars, clientVars, diskVars, sync>>

IcloudHasStoredCredentials ==
    HasStoredCredentials("icloud_has_stored_credentials", ICLOUD_KEYRING_SERVICE_NAME,
                         ICLOUD_IDENTITY_KEY)

PushoverHasStoredCredentials ==
    HasStoredCredentials("pushover_has_stored_credentials",
                         PUSHOVER_KEYRING_SERVICE_NAME, PUSHOVER_IDENTITY_KEY)

(***************************************************************************)
(* Configurations.  BaseConfig.__init__ normalises LOG_LEVEL to upper case *)
(* and EXECUTION_MODE to lower case, and parses the limits as numbers.     *)
(***************************************************************************)
\* lines 66-67: the two intervals are the floats parsed from the environment
parse_intervals(c) ==
    [c EXCEPT !.sync_interval_minutes = float_of(c.SYNC_INTERVAL_MINUTES),
              !.maintenance_interval_hours = float_of(c.MAINTENANCE_INTERVAL_HOURS)]

DefaultConfig ==
    [enable_pushover |-> TRUE, log_level |-> "INFO",
     include_personal_albums |-> TRUE, include_shared_albums |-> TRUE,
     execution_mode |-> "single",
     SYNC_INTERVAL_MINUTES |-> Dec(2, 0), MAINTENANCE_INTERVAL_HOURS |-> Dec(1, 0),
     sync_interval_minutes |-> float_of(Dec(2, 0)),
     maintenance_interval_hours |-> float_of(Dec(1, 0)), dry_run |-> FALSE,
     max_file_size_mb |-> 0, max_downloads |-> 0,
     personal_album_names_to_include |-> <<>>,
     shared_album_names_to_include |-> <<>>]

\* no sync pass has started
NoSync == [status |-> "idle", accepted |-> 0, attempted |-> <<>>, failed |-> {}]

\* iCloudClient.__init__ and an untouched download directory
NoGenerator == [status |-> "idle", pos |-> 0, out |-> <<>>]
File(state, data) == [state |-> state, data |-> data]
Paths == {"a.jpg", "b.jpg"}

ClientIdle ==
    /\ api = FALSE
    /\ photosState = "ok"
    /\ library = <<>>
    /\ gen = NoGenerator
    /\ fs = [p \in Paths |-> File("absent", 0)]
    /\ requested = {}
    /\ sync = NoSync

ToggledConfigs == {[DefaultConfig EXCEPT !.enable_pushover = e] : e \in BOOLEAN}

\* the photo-service namespace of the keyring, under both values of
\* ENABLE_PUSHOVER
InitIcloud ==
    /\ cfg \in ToggledConfigs
    /\ keyring = EmptyKeyring
    /\ dbDir = "absent"
    /\ storeOps = 0
    /\ ClientIdle
    /\ res = NoRes

NextIcloud ==
    \/ IcloudStoreCredentials
    \/ IcloudDeleteCredentials
    \/ IcloudHasStoredCredentials
    \/ GetIcloudUsername
    \/ GetIcloudPassword

SpecIcloud == InitIcloud /\ [][NextIcloud]_vars

\* the notification namespace of the keyring and validate()
InitPushover ==
    /\ cfg \in ToggledConfigs
    /\ keyring = EmptyKeyring
    /\ dbDir = "absent"
    /\ storeOps = 0
    /\ ClientIdle
    /\ res = NoRes

NextPushover ==
    \/ PushoverStoreCredentials
    \/ PushoverDeleteCredentials
    \/ PushoverHasStoredCredentials
    \/ GetPushoverUserKey
    \/ GetPushoverApiToken
    \/ Validate

SpecPushover == InitPushover /\ [][NextPushover]_vars

(***************************************************************************)
(* The remote collaborator (pyicloud).  PyiCloudService(username,          *)
(* password) returns a service or raises; the remote accepts one pair of   *)
(* credentials.  Reading service.photos gives the photo service, gives     *)
(* None, or raises, as photosState says.                                   *)
(***************************************************************************)
RemoteUser == "alice"
RemotePassword == "pw1"
LoginOutcomes == {"ok", "failed_login", "api_error", "other"}
PhotosStates == {"ok", "none", "raise"}

\* the exception PyiCloudService(...) raises, "none" when it returns
login_exception(username, password, outcome) ==
    IF outcome = "api_error" THEN "PyiCloudAPIResponseException"
    ELSE IF outcome = "other" THEN "Exception"
    ELSE IF outcome = "failed_login" \/ username # RemoteUser \/ password # RemotePassword
         THEN "PyiCloudFailedLoginException"
    ELSE "none"

(***************************************************************************)
(* iCloudClient.authenticate.  The body ends in a return or an exception;  *)
(* _api is assigned once PyiCloudService(...) has returned.                *)
(***************************************************************************)
Return(value, a) == [exc |-> "none", ret |-> value, api |-> a]
Throw(kind, a) == [exc |-> kind, ret |-> FALSE, api |-> a]

\* lines 33-50: f[1..7] are the keyring reads of the five property reads
authenticate_body(f, outcome) ==
    LET u1 == icloud_username(f[1])
        p1 == icloud_password(f[2], f[3])
        u2 == icloud_username(f[4])
        u3 == icloud_username(f[5])
        p3 == icloud_password(f[6], f[7])
        login == login_exception(u3.value, p3.value, outcome)
    IN  IF u1.raised THEN Throw("ValueError", api)
        ELSE IF u1.value = "" THEN Return(FALSE, api)
        ELSE IF p1.raised THEN Throw("ValueError", api)
        ELSE IF p1.value = "" THEN Return(FALSE, api)
        ELSE IF u2.raised \/ u3.raised \/ p3.raised THEN Throw("ValueError", api)
        ELSE IF login # "none" THEN Throw(login, api)
        ELSE IF photosState = "raise" THEN Throw("PyiCloudAPIResponseException", TRUE)
        ELSE Return(photosState = "ok", TRUE)

\* an authenticate() without the final `except Exception` clause
authenticate_catches_pyicloud_only(kind) ==
    kind \in {"PyiCloudFailedLoginException", "PyiCloudAPIResponseException"}

\* lines 52-60: the except clauses
authenticate_catches(kind) ==
    kind \in {"PyiCloudFailedLoginException", "PyiCloudAPIResponseException",
              "ValueError", "Exception"}

AuthReadFailures ==
    {NoFails, [i \in Reads |-> TRUE]} \cup {[i \in Reads |-> i = k] : k \in Reads}

Authenticate ==
    \E f \in AuthReadFailures, outcome \in LoginOutcomes :
        LET body == authenticate_body(f, outcome)
            propagates == body.exc # "none" /\ ~authenticate_catches(body.exc)
        IN  /\ api' = body.api
            /\ res' = [NoRes EXCEPT !.op = "authenticate", !.raised = propagates,
                                    !.ret = body.ret /\ ~propagates,
                                    !.value = outcome, !.fails = f]
            /\ UNCHANGED <<configVars, photosState, library, gen, diskVars, sync>>

\* lines 179-186: no exception handler
IsAuthenticated ==
    /\ res' = [NoRes EXCEPT !.op = "is_authenticated",
                            !.raised = (api /\ photosState = "raise"),
                            !.ret = (api /\ photosState = "ok")]
    /\ UNCHANGED <<configVars, clientVars, diskVars, sync>>

\* the remote session expires, recovers, or starts raising
RemoteChange ==
    \E st \in PhotosStates \ {photosState} :
        /\ photosState' = st
        /\ res' = [NoRes EXCEPT !.op = "remote_change"]
        /\ UNCHANGED <<configVars, api, library, gen, diskVars, sync>>

(***************************************************************************)
(* iCloudClient.list_photos, a generator.  An entry of the library is      *)
(* [id, bad]: reading the metadata of a bad entry raises.                  *)
(***************************************************************************)
Entry(i, bad) == [id |-> i, bad |-> bad]
Libraries ==
    UNION {{[i \in 1..n |-> Entry(i, b[i])] : b \in [1..n -> BOOLEAN]} : n \in 0..MaxPhotos}

\* lines 101-112, run when the generator is first resumed
list_photos_start(fetchFails) ==
    IF ~api THEN [NoGenerator EXCEPT !.status = "unauthenticated"]
    ELSE IF photosState = "raise" THEN [NoGenerator EXCEPT !.status = "raised"]
    ELSE IF photosState = "none" THEN [NoGenerator EXCEPT !.status = "unauthenticated"]
    ELSE IF fetchFails THEN [NoGenerator EXCEPT !.status = "aborted"]
    ELSE [NoGenerator EXCEPT !.status = "running"]

\* a loop without the inner try/except: a bad entry reaches the outer handler
list_photos_step_no_inner_handler(g, iterFails) ==
    IF iterFails THEN [g EXCEPT !.status = "aborted"]
    ELSE IF g.pos = Len(library) THEN [g EXCEPT !.status = "exhausted"]
    ELSE IF library[g.pos + 1].bad THEN [g EXCEPT !.status = "aborted", !.pos = g.pos + 1]
    ELSE [g EXCEPT !.pos = g.pos + 1, !.out = Append(g.out, library[g.pos + 1].id)]

\* lines 114-136, one iteration of the loop: the iterator raises (outer
\* handler, the generator ends), is exhausted, or gives the next entry,
\* which is skipped when it raises (inner handler) and yielded otherwise
list_photos_step(g, iterFails) ==
    IF iterFails THEN [g EXCEPT !.status = "aborted"]
    ELSE IF g.pos = Len(library) THEN [g EXCEPT !.status = "exhausted"]
    ELSE IF library[g.pos + 1].bad THEN [g EXCEPT !.pos = g.pos + 1]
    ELSE [g EXCEPT !.pos = g.pos + 1, !.out = Append(g.out, library[g.pos + 1].id)]

list_photos_event(g, iterFails) ==
    IF iterFails THEN "fetch_error"
    ELSE IF g.pos = Len(library) THEN "end"
    ELSE IF library[g.pos + 1].bad THEN "item_error"
    ELSE "yield"

ListPhotosStart ==
    \E fetchFails \in BOOLEAN :
        /\ gen.status # "running"
        /\ gen' = list_photos_start(fetchFails)
        /\ res' = [NoRes EXCEPT !.op = "list_photos", !.value = "start",
                                !.raised = (gen'.status = "raised")]
        /\ UNCHANGED <<configVars, api, photosState, library, diskVars, sync>>

ListPhotosStep ==
    \E iterFails \in BOOLEAN :
        /\ gen.status = "running"
        /\ gen' = list_photos_step(gen, iterFails)
        /\ res' = [NoRes EXCEPT !.op = "list_photos",
                                !.value = list_photos_event(gen, iterFails)]
        /\ UNCHANGED <<configVars, api, photosState, library, diskVars, sync>>

\* the client, against keyrings holding no, the accepted or a rejected
\* credential pair
ClientKeyrings ==
    {EmptyKeyring} \cup
    {store_credentials(EmptyKeyring, ICLOUD_KEYRING_SERVICE_NAME, ICLOUD_IDENTITY_KEY,
                       u, RemotePassword, 0) : u \in {RemoteUser, "bob"}}

InitClient ==
    /\ cfg \in ToggledConfigs
    /\ keyring \in ClientKeyrings
    /\ dbDir = "absent"
    /\ storeOps = 0
    /\ api = FALSE
    /\ photosState \in PhotosStates
    /\ library \in Libraries
    /\ gen = NoGenerator
    /\ fs = [p \in Paths |-> File("absent", 0)]
    /\ requested = {}
    /\ sync = NoSync
    /\ res = NoRes

NextClient ==
    \/ Authenticate
    \/ IsAuthenticated
    \/ RemoteChange
    \/ ListPhotosStart
    \/ ListPhotosStep

SpecClient == InitClient /\ [][NextClient]_vars

(***************************************************************************)
(* iCloudClient.download_photo.  A descriptor is the photo_info dict:      *)
(* shape "ok" has every key, "no_photo_obj" and "no_filename" lack that    *)
(* key, "no_size" lacks 'size' (read as 0) and "size_none" holds None      *)
(* under 'size'.                                                           *)
(***************************************************************************)
BytesPerMB == 1048576
\* one megabyte, and one byte more
Sizes == {BytesPerMB, BytesPerMB + 1}
Shapes == {"ok", "no_photo_obj", "no_filename", "no_size", "size_none"}
Asset(i, size, shape) == [id |-> i, size |-> size, shape |-> shape]
Assets ==
    {Asset(i, size, "ok") : i \in 1..MaxAssets, size \in Sizes}
    \cup {Asset(1, BytesPerMB + 1, shape) : shape \in Shapes \ {"ok"}}

\* what the remote and the disk do during one download
IoOutcomes == {"ok", "download_raises", "open_raises", "read_raises", "write_raises"}

\* photo_info.get('size', 0)
size_of(d) == IF d.shape = "no_size" THEN 0 ELSE d.size

\* a limit compared against whole megabytes (size // (1024 * 1024))
exceeds_limit_whole_megabytes(size, limit) == (size \div BytesPerMB) > limit

\* lines 156-157: size / (1024 * 1024) > max_file_size_mb; the division by
\* a power of two is exact, so the comparison is that of the byte counts
exceeds_limit(size, limit) == size > limit * BytesPerMB

\* a download_photo that never looks at dry_run
dry_run_ignored == FALSE

\* line 161
dry_run_check == cfg.dry_run

Leave(exc, ret, log, files, req) ==
    [exc |-> exc, ret |-> ret, log |-> log, fs |-> files, requested |-> req]

\* lines 149-173: the body of the try block
download_photo_body(d, path, io) ==
    LET asked == requested \cup {d.id}
    IN  IF d.shape \in {"no_photo_obj", "no_filename"}
        THEN Leave("KeyError", FALSE, "none", fs, requested)
        ELSE IF cfg.max_file_size_mb > 0 /\ d.shape = "size_none"
        THEN Leave("TypeError", FALSE, "none", fs, requested)
        ELSE IF cfg.max_file_size_mb > 0 /\ exceeds_limit(size_of(d), cfg.max_file_size_mb)
        THEN Leave("none", FALSE, "skip", fs, requested)
        ELSE IF dry_run_check
        THEN Leave("none", TRUE, "dry_run", fs, requested)
        ELSE IF io = "download_raises"
        THEN Leave("Exception", FALSE, "none", fs, asked)
        ELSE IF io = "open_raises"
        THEN Leave("OSError", FALSE, "none", fs, asked)
        ELSE IF io = "read_raises"
        THEN Leave("Exception", FALSE, "none",
                   [fs EXCEPT ![path] = File("empty", 0)], asked)
        ELSE IF io = "write_raises"
        THEN Leave("OSError", FALSE, "none",
                   [fs EXCEPT ![path] = File("partial", d.id)], asked)
        ELSE Leave("none", TRUE, "downloaded",
                   [fs EXCEPT ![path] = File("complete", d.id)], asked)

\* a handler for I/O errors only
download_catches_os_errors_only(kind) == kind = "OSError"

\* lines 175-177: except Exception
download_catches(kind) == kind \in {"KeyError", "TypeError", "OSError", "Exception"}

DownloadPhoto ==
    \E d \in Assets, path \in Paths, io \in IoOutcomes :
        LET body == download_photo_body(d, path, io)
            caught == body.exc # "none" /\ download_catches(body.exc)
            propagates == body.exc # "none" /\ ~download_catches(body.exc)
        IN  /\ fs' = body.fs
            /\ requested' = body.requested
            /\ res' = [NoRes EXCEPT
                          !.op = "download_photo", !.raised = propagates,
                          !.ret = body.ret,
                          !.value = IF caught THEN "error" ELSE body.log,
                          !.arg1 = path, !.arg2 = io, !.asset = d,
                          !.after_failure =
                              (res.op = "download_photo" /\ res.value = "error")]
            /\ UNCHANGED <<configVars, clientVars, sync>>

\* downloads under every combination of DRY_RUN and MAX_FILE_SIZE_MB, into
\* a directory that may already hold the files
DownloadConfigs ==
    {[DefaultConfig EXCEPT !.dry_run = d, !.max_file_size_mb = m] :
        d \in BOOLEAN, m \in {-1, 0, 1}}

InitDownload ==
    /\ cfg \in DownloadConfigs
    /\ keyring = EmptyKeyring
    /\ dbDir = "absent"
    /\ storeOps = 0
    /\ api = FALSE
    /\ photosState = "ok"
    /\ library = <<>>
    /\ gen = NoGenerator
    /\ fs \in {[p \in Paths |-> File(st, 0)] : st \in {"absent", "old"}}
    /\ requested = {}
    /\ sync = NoSync
    /\ res = NoRes

NextDownload == DownloadPhoto

SpecDownload == InitDownload /\ [][NextDownload]_vars

(***************************************************************************)
(* The sync pass: the loop that consumes list_photos() and decides, asset  *)
(* by asset, whether to call download_photo.  An entry of the library      *)
(* carries what the decision reads: whether the asset belongs to an        *)
(* allowed album and its size; the destination of asset i is the path i.   *)
(***************************************************************************)
SyncKinds == {"ok", "bad", "filtered", "local", "big"}
SyncEntry(i, kind) ==
    [id |-> i, bad |-> (kind = "bad"), in_albums |-> (kind # "filtered"),
     local |-> (kind = "local"),
     size |-> IF kind = "big" THEN BytesPerMB + 1 ELSE BytesPerMB]
SyncLibraries ==
    UNION {{[i \in 1..n |-> SyncEntry(i, k[i])] : k \in [1..n -> SyncKinds]} :
              n \in 0..MaxPhotos}

\* a decision that stops one asset late: the count must exceed the cap
sync_decision_cap_exceeded(entry, accepted) ==
    IF ~entry.in_albums THEN "skip_album"
    ELSE IF fs[entry.id].state # "absent" THEN "skip_local"
    ELSE IF cfg.max_file_size_mb > 0 /\ exceeds_limit(entry.size, cfg.max_file_size_mb)
    THEN "skip_size"
    ELSE IF cfg.max_downloads > 0 /\ accepted > cfg.max_downloads THEN "stop"
    ELSE "accept"

\* the per-asset decision order, first match wins
sync_decision(entry, accepted) ==
    IF ~entry.in_albums THEN "skip_album"
    ELSE IF fs[entry.id].state # "absent" THEN "skip_local"
    ELSE IF cfg.max_file_size_mb > 0 /\ exceeds_limit(entry.size, cfg.max_file_size_mb)
    THEN "skip_size"
    ELSE IF cfg.max_downloads > 0 /\ accepted >= cfg.max_downloads THEN "stop"
    ELSE "accept"

\* the pass starts the enumeration
SyncStart ==
    \E fetchFails \in BOOLEAN :
        /\ sync.status = "idle"
        /\ gen' = list_photos_start(fetchFails)
        /\ sync' = [sync EXCEPT !.status = IF gen'.status = "running"
                                           THEN "running" ELSE "done"]
        /\ res' = [NoRes EXCEPT !.op = "sync", !.value = "start"]
        /\ UNCHANGED <<configVars, api, photosState, library, diskVars>>

\* one entry of the enumeration: the generator skips it, ends, or yields it
\* to the decision; an accepted asset is handed to download_photo
SyncStep ==
    \E iterFails \in BOOLEAN, io \in {"ok", "download_raises", "write_raises"} :
        LET event == list_photos_event(gen, iterFails)
            entry == library[gen.pos + 1]
            decision == IF event = "yield" THEN sync_decision(entry, sync.accepted)
                        ELSE event
            d == Asset(entry.id, entry.size, "ok")
            body == download_photo_body(d, entry.id, io)
        IN  /\ sync.status = "running"
            /\ gen' = list_photos_step(gen, iterFails)
            /\ IF decision = "accept"
               THEN /\ fs' = body.fs
                    /\ requested' = body.requested
                    /\ sync' = [sync EXCEPT
                                   !.accepted = sync.accepted + 1,
                                   !.attempted = Append(sync.attempted, entry.id),
                                   !.failed = IF body.ret THEN sync.failed
                                              ELSE sync.failed \cup {entry.id}]
               ELSE /\ sync' = [sync EXCEPT
                                   !.status = IF decision = "stop" THEN "stopped"
                                              ELSE IF decision \in {"end", "fetch_error"}
                                                   THEN "done"
                                              ELSE "running"]
                    /\ UNCHANGED diskVars
            /\ res' = [NoRes EXCEPT !.op = "sync", !.value = decision,
                                    !.arg2 = io]
            /\ UNCHANGED <<configVars, api, photosState, library>>

\* passes under every combination of the cap, the size limit and DRY_RUN
SyncConfigs ==
    {[DefaultConfig EXCEPT !.max_downloads = n, !.max_file_size_mb = m,
                           !.dry_run = d] :
        n \in 0..2, m \in {0, 1}, d \in BOOLEAN}

\* an authenticated client and a sync directory that holds the local assets
InitSync ==
    /\ cfg \in SyncConfigs
    /\ keyring = EmptyKeyring
    /\ dbDir = "absent"
    /\ storeOps = 0
    /\ api = TRUE
    /\ photosState = "ok"
    /\ library \in SyncLibraries
    /\ gen = NoGenerator
    /\ fs = [p \in 1..MaxPhotos |->
                IF p <= Len(library) /\ library[p].local
                THEN File("old", 0) ELSE File("absent", 0)]
    /\ requested = {}
    /\ sync = NoSync
    /\ res = NoRes

NextSync ==
    \/ SyncStart
    \/ SyncStep

SpecSync == InitSync /\ [][NextSync]_vars

(***************************************************************************)
(* validate() as a function of the configuration: every combination of     *)
(* passing and failing settings, over keyrings in which each namespace is  *)
(* empty or holds one stored credential pair.                              *)
(***************************************************************************)
ValidateConfigs ==
    {parse_intervals(c) : c \in
        [enable_pushover : BOOLEAN, log_level : {"INFO", "TRACE"},
         include_personal_albums : BOOLEAN, include_shared_albums : BOOLEAN,
         execution_mode : {"single", "daemon"},
         SYNC_INTERVAL_MINUTES : {Dec(0, 0), Dec(2, 0), Dec(60, 0), Dec(61, 0)},
         MAINTENANCE_INTERVAL_HOURS : {Dec(-1, 0), Dec(0, 0), Dec(1, 0)},
         sync_interval_minutes : {FloatZero},
         maintenance_interval_hours : {FloatZero}, dry_run : {FALSE},
         max_file_size_mb : {0}, max_downloads : {0},
         personal_album_names_to_include : {<<>>},
         shared_album_names_to_include : {<<>>}]}

StoredOnce(kr, service, identityKey) ==
    {kr} \cup {store_credentials(kr, service, identityKey, u, p, 0) :
                  u \in {"", "alice"}, p \in Secrets}

ValidateKeyrings ==
    UNION {StoredOnce(k, PUSHOVER_KEYRING_SERVICE_NAME, PUSHOVER_IDENTITY_KEY) :
              k \in StoredOnce(EmptyKeyring, ICLOUD_KEYRING_SERVICE_NAME,
                               ICLOUD_IDENTITY_KEY)}

InitValidate ==
    /\ cfg \in ValidateConfigs
    /\ keyring \in ValidateKeyrings
    /\ dbDir \in DbDirStates
    /\ storeOps = 0
    /\ ClientIdle
    /\ res = NoRes

NextValidate == Validate

SpecValidate == InitValidate /\ [][NextValidate]_vars

(***************************************************************************)
(* BaseConfig.validate_albums_exist: the album filter lists checked        *)
(* against the remote's album listing.  The remote's reply to each query   *)
(* is the set of albums it holds at that moment.                           *)
(***************************************************************************)
AlbumNames == {"Trip", "Typo", "Family"}
\* PERSONAL_ALBUM_NAMES_TO_INCLUDE / SHARED_ALBUM_NAMES_TO_INCLUDE after the
\* split at commas: a list of non-empty names, duplicates allowed
AlbumLists == UNION {[1..n -> AlbumNames] : n \in 0..MaxAlbumNames}

\* iCloudClient.verify_albums_exist(names) -> (available, existing, missing)
verify_albums_exist(names, remote) ==
    [available |-> remote,
     existing |-> SelectSeq(names, LAMBDA n : n \in remote),
     missing |-> SelectSeq(names, LAMBDA n : n \notin remote)]

\* one element of the list missing_albums: f"Personal: {name}",
\* f"Shared: {name}" or the note naming the existing albums
MissingEntry(kind, name) == [tag |-> kind, name |-> name, albums |-> {}]
ExistingNote(kind, albums) == [tag |-> kind, name |-> "", albums |-> albums]

\* lines 382-393 and 395-404: the part of one list.  `if names:` skips the
\* query for an empty list
albums_part(names, remote, kind, note) ==
    IF names = <<>> THEN [queries |-> <<>>, missing_albums |-> <<>>]
    ELSE LET reply == verify_albums_exist(names, remote)
         IN  [queries |-> <<names>>,
              missing_albums |->
                  IF reply.missing = <<>> THEN <<>>
                  ELSE [i \in DOMAIN reply.missing |->
                            MissingEntry(kind, reply.missing[i])]
                       \o <<ExistingNote(note, reply.available)>>]

\* a check that raises as soon as the personal list has a missing album
validate_albums_exist_personal_first(remotePersonal, remoteShared) ==
    LET personal == albums_part(cfg.personal_album_names_to_include,
                                remotePersonal, "Personal", "personal_note")
        shared == albums_part(cfg.shared_album_names_to_include,
                              remoteShared, "Shared", "shared_note")
    IN  IF personal.missing_albums # <<>> THEN personal
        ELSE [queries |-> personal.queries \o shared.queries,
              missing_albums |-> shared.missing_albums]

\* lines 370-409: ValueError is raised when missing_albums is not empty
validate_albums_exist(remotePersonal, remoteShared) ==
    LET personal == albums_part(cfg.personal_album_names_to_include,
                                remotePersonal, "Personal", "personal_note")
        shared == albums_part(cfg.shared_album_names_to_include,
                              remoteShared, "Shared", "shared_note")
    IN  [queries |-> personal.queries \o shared.queries,
         missing_albums |-> personal.missing_albums \o shared.missing_albums]

ValidateAlbumsExist ==
    \E remotePersonal, remoteShared \in SUBSET AlbumNames :
        LET out == validate_albums_exist(remotePersonal, remoteShared)
        IN  /\ res' = [NoRes EXCEPT !.op = "validate_albums_exist",
                                    !.raised = (out.missing_albums # <<>>),
                                    !.errors = out.missing_albums,
                                    !.queries = out.queries,
                                    !.remote = <<remotePersonal, remoteShared>>]
            /\ UNCHANGED <<configVars, clientVars, diskVars, sync>>

AlbumConfigs ==
    {[DefaultConfig EXCEPT !.personal_album_names_to_include = p,
                           !.shared_album_names_to_include = s] :
        p \in AlbumLists, s \in AlbumLists}

InitAlbums ==
    /\ cfg \in AlbumConfigs
    /\ keyring = EmptyKeyring
    /\ dbDir = "absent"
    /\ storeOps = 0
    /\ ClientIdle
    /\ res = NoRes

NextAlbums == ValidateAlbumsExist

SpecAlbums == InitAlbums /\ [][NextAlbums]_vars

(***************************************************************************)
(* validate() over the interval settings: whole and fractional numbers of  *)
(* minutes and hours, around zero and around the boundary                  *)
(* MAINTENANCE_INTERVAL_HOURS * 60 = SYNC_INTERVAL_MINUTES.                *)
(***************************************************************************)
SyncIntervalLiterals ==
    {Dec(-1, 0), Dec(0, 0), Dec(2, 0), Dec(3, 0), Dec(78, 1), Dec(60, 0),
     Dec(61, 0), Dec(618, 1)}
MaintenanceIntervalLiterals ==
    {Dec(-1, 0), Dec(0, 0), Dec(5, 2), Dec(13, 2), Dec(1, 0), Dec(103, 2)}

IntervalConfigs ==
    {parse_intervals([DefaultConfig EXCEPT !.SYNC_INTERVAL_MINUTES = s,
                                           !.MAINTENANCE_INTERVAL_HOURS = m,
                                           !.enable_pushover = e]) :
        s \in SyncIntervalLiterals, m \in MaintenanceIntervalLiterals,
        e \in BOOLEAN}

InitIntervals ==
    /\ cfg \in IntervalConfigs
    /\ keyring \in ClientKeyrings
    /\ dbDir \in {"absent", "writable"}
    /\ storeOps = 0
    /\ ClientIdle
    /\ res = NoRes

NextIntervals == Validate

SpecIntervals == InitIntervals /\ [][NextIntervals]_vars

(***************************************************************************)
(* Properties.                                                             *)
(***************************************************************************)
InErrors(msg) == \E i \in DOMAIN res.errors : res.errors[i] = msg

IcloudIdentity == keyring[ICLOUD_KEYRING_SERVICE_NAME][ICLOUD_IDENTITY_KEY]
PushoverIdentity == keyring[PUSHOVER_KEYRING_SERVICE_NAME][PUSHOVER_IDENTITY_KEY]

\* the checks of validate(), each with its message: the credential checks
\* are the outcome of the property read under the keyring reads of the call
Checks ==
    {[msg |-> MSG_USERNAME, fails |-> Missing(icloud_username(res.fails[1]))],
     [msg |-> MSG_PASSWORD,
      fails |-> Missing(icloud_password(res.fails[2], res.fails[3]))],
     [msg |-> MSG_LOG_LEVEL,
      fails |-> cfg.log_level \notin {"DEBUG", "INFO", "WARNING", "ERROR"}],
     [msg |-> MSG_API_TOKEN,
      fails |-> cfg.enable_pushover
                /\ Missing(pushover_api_token(res.fails[4], res.fails[5]))],
     [msg |-> MSG_USER_KEY,
      fails |-> cfg.enable_pushover /\ Missing(pushover_user_key(res.fails[6]))],
     [msg |-> MSG_ALBUMS,
      fails |-> cfg.include_personal_albums = FALSE
                /\ cfg.include_shared_albums = FALSE],
     [msg |-> MSG_EXECUTION_MODE,
      fails |-> cfg.execution_mode # "single" /\ cfg.execution_mode # "continuous"],
     [msg |-> MSG_SYNC_INTERVAL,
      fails |-> float_le(cfg.sync_interval_minutes, FloatZero)],
     [msg |-> MSG_MAINTENANCE_INTERVAL,
      fails |-> float_le(cfg.maintenance_interval_hours, FloatZero)],
     [msg |-> MSG_INTERVAL_RATIO,
      fails |-> float_le(float_mul(cfg.maintenance_interval_hours, 60),
                         cfg.sync_interval_minutes)],
     [msg |-> MSG_DB_INVALID, fails |-> dbDir = "error"],
     [msg |-> MSG_DB_NOT_WRITABLE, fails |-> dbDir = "readonly"]}

FailingChecks == {c.msg : c \in {c \in Checks : c.fails}}

\* C1: one call of validate() reports every check that fails, each once,
\* and raises exactly when some check fails.
C1_ValidateReportsEveryFailure ==
    res.op = "validate" =>
        /\ {res.errors[i] : i \in DOMAIN res.errors} = FailingChecks
        /\ Len(res.errors) = Cardinality(FailingChecks)
        /\ res.raised <=> (FailingChecks # {})

\* a call in which a credential check, the log level, the execution mode,
\* an interval and the database directory fail together
C1_Witness ==
    /\ res.op = "validate"
    /\ res.raised
    /\ Len(res.errors) >= 6
    /\ InErrors(MSG_PASSWORD) /\ InErrors(MSG_LOG_LEVEL) /\ InErrors(MSG_EXECUTION_MODE)
    /\ InErrors(MSG_ALBUMS) /\ InErrors(MSG_INTERVAL_RATIO) /\ InErrors(MSG_DB_NOT_WRITABLE)

\* C2: after a successful store of a non-empty pair (u, p) the identity
\* resolves to u and the secret to p, and once the identity entry is deleted
\* resolution fails with the ValueError that stands for MissingCredential.
C2_CredentialRoundTrip ==
    /\ (res.op = "icloud_store_credentials" /\ res.ret
            /\ res.arg1 # "" /\ res.arg2 # "")
        => /\ icloud_username(FALSE) = Returned(res.arg1)
           /\ icloud_password(FALSE, FALSE) = Returned(res.arg2)
    /\ (res.op = "icloud_delete_credentials" /\ res.ret /\ IcloudIdentity = None)
        => /\ icloud_username(FALSE).raised
           /\ icloud_password(FALSE, FALSE).raised

\* C3: with the service identity absent from the store, or the store call
\* failing, every read of the service username or password raises, whatever
\* ENABLE_PUSHOVER is.
C3_ServiceCredentialsRequired ==
    (res.op \in {"icloud_username", "icloud_password"}
        /\ (IcloudIdentity = None \/ res.fails[1]))
    => res.raised

PushoverStore == keyring[PUSHOVER_KEYRING_SERVICE_NAME]
UserKeyAbsent == Falsy(PushoverIdentity)
\* the secret paired with the stored user key
PairedTokenAbsent == UserKeyAbsent \/ Falsy(PushoverStore[PushoverIdentity[1]])

StoredCredentialsAccepted ==
    /\ IcloudIdentity = Some(RemoteUser)
    /\ keyring[ICLOUD_KEYRING_SERVICE_NAME][RemoteUser] = Some(RemotePassword)

\* C5: authenticate() never raises, and returns true only when the stored
\* credentials were accepted, the login succeeded and _api.photos was
\* reachable; with all of that and no failing keyring read it returns true.
C5_AuthenticateNeverRaises ==
    res.op = "authenticate" =>
        /\ ~res.raised
        /\ res.ret => /\ res.value = "ok"
                      /\ StoredCredentialsAccepted
                      /\ api /\ photosState = "ok"
        /\ (res.value = "ok" /\ StoredCredentialsAccepted /\ photosState = "ok"
                /\ res.fails = NoFails)
            => res.ret

\* the login succeeded and reading _api.photos raised: reported as false
C5_Witness ==
    /\ res.op = "authenticate"
    /\ res.value = "ok" /\ StoredCredentialsAccepted /\ res.fails = NoFails
    /\ photosState = "raise"
    /\ api
    /\ ~res.ret /\ ~res.raised

\* C6: is_authenticated answers true exactly when a session is held and the
\* photo service is reachable at the call, and false (without raising)
\* otherwise, in particular once the photo service has become unreachable.
C6_IsAuthenticatedRechecks ==
    res.op = "is_authenticated" =>
        /\ ~res.raised
        /\ res.ret <=> (api /\ photosState = "ok")

NonFailing(entries) == SelectSeq(entries, LAMBDA e : ~e.bad)
Ids(entries) == [i \in DOMAIN entries |-> entries[i].id]

\* C10: the generator has yielded exactly the non-failing entries among those
\* it has consumed, in the remote's order; when it ends normally it has
\* consumed the whole library; an entry that fails is skipped and the
\* generator goes on.
C10_EnumerationSkipsFailures ==
    /\ gen.out = Ids(NonFailing(SubSeq(library, 1, gen.pos)))
    /\ gen.status = "exhausted" => gen.pos = Len(library)
    /\ (res.op = "list_photos" /\ res.value = "item_error") => gen.status = "running"

\* a library whose second entry fails, enumerated to its end
C10_Witness ==
    /\ Len(library) = 3
    /\ library[2].bad
    /\ gen.status = "exhausted"
    /\ gen.out = <<1, 3>>

WellFormed(d) == d.shape \in {"ok", "no_size"}
OverLimit(d) ==
    /\ cfg.max_file_size_mb > 0
    /\ d.shape # "size_none"
    /\ size_of(d) > cfg.max_file_size_mb * BytesPerMB

\* C7: a well-formed asset is skipped by size exactly when the limit is
\* positive and its size is strictly greater than the limit; an asset over
\* the limit is never fetched and its destination never touched, whatever
\* dry_run is, and the call returns false.
C7_SkipBySize ==
    /\ [](res.op = "download_photo" =>
            /\ res.value = "skip" => OverLimit(res.asset)
            /\ (WellFormed(res.asset) /\ OverLimit(res.asset))
                => (res.value = "skip" /\ ~res.ret))
    /\ [][(res'.op = "download_photo" /\ OverLimit(res'.asset))
            => (fs' = fs /\ requested' = requested)]_vars

\* an asset one byte over a limit of 1 MB, skipped with dry_run set
C7_Witness ==
    /\ res.op = "download_photo"
    /\ cfg.dry_run /\ cfg.max_file_size_mb = 1
    /\ res.asset = Asset(1, BytesPerMB + 1, "ok")
    /\ res.value = "skip" /\ ~res.ret

Untouched(f) == f.state \in {"absent", "old"}

\* C8 as stated: with dry_run every download_photo call for an asset
\* returns the no-op result and leaves the remote and the disk alone.
C8_DryRunAlwaysNoop ==
    (cfg.dry_run /\ res.op = "download_photo" /\ WellFormed(res.asset))
    => /\ res.value = "dry_run" /\ res.ret
       /\ requested = {}
       /\ \A p \in Paths : Untouched(fs[p])

\* C8 amended: with dry_run no call fetches bytes or touches a destination;
\* the no-op result (true) is returned for a well-formed asset that is not
\* over the size limit, an asset over the limit is reported as skipped by
\* size (false) and a malformed descriptor as a failure (false).
C8_DryRunTouchesNothing ==
    (cfg.dry_run /\ res.op = "download_photo")
    => /\ requested = {}
       /\ \A p \in Paths : Untouched(fs[p])
       /\ ~res.raised
       /\ (WellFormed(res.asset) /\ ~OverLimit(res.asset))
            => (res.value = "dry_run" /\ res.ret)
       /\ (WellFormed(res.asset) /\ OverLimit(res.asset))
            => (res.value = "skip" /\ ~res.ret)
       /\ res.asset.shape \in {"no_photo_obj", "no_filename"}
            => (res.value = "error" /\ ~res.ret)

\* a second dry-run call, for an asset at the limit whose fetch would fail
C8_Witness ==
    /\ cfg.dry_run /\ cfg.max_file_size_mb = 1
    /\ res.op = "download_photo"
    /\ res.asset = Asset(2, BytesPerMB, "ok")
    /\ res.arg2 = "download_raises"
    /\ res.after_failure
    /\ res.value = "dry_run" /\ res.ret
    /\ requested = {}

\* the call reached the fetch: nothing returned before it
ReachedFetch(d) == WellFormed(d) /\ ~OverLimit(d) /\ ~cfg.dry_run

\* C9: download_photo never raises; a malformed descriptor, a failing fetch
\* and a failing write are each reported as false; and a download that
\* follows a failed one succeeds when nothing fails in it.
C9_DownloadNeverRaises ==
    res.op = "download_photo" =>
        /\ ~res.raised
        /\ res.asset.shape \in {"no_photo_obj", "no_filename"}
            => (res.value = "error" /\ ~res.ret)
        /\ (ReachedFetch(res.asset) /\ res.arg2 # "ok")
            => (res.value = "error" /\ ~res.ret)
        /\ (ReachedFetch(res.asset) /\ res.arg2 = "ok")
            => /\ res.value = "downloaded" /\ res.ret
               /\ fs[res.arg1] = File("complete", res.asset.id)
               /\ res.asset.id \in requested

\* a download that succeeds right after a failed one
C9_Witness ==
    /\ res.op = "download_photo"
    /\ res.after_failure
    /\ res.arg2 = "ok"
    /\ res.value = "downloaded" /\ res.ret
    /\ fs[res.arg1] = File("complete", res.asset.id)

PersonalNames == cfg.personal_album_names_to_include
SharedNames == cfg.shared_album_names_to_include
\* the configured names the remote's reply does not hold
ReportedMissing(names, remote) == {names[i] : i \in DOMAIN names} \ remote
Named(kind) == {res.errors[i].name : i \in {j \in DOMAIN res.errors : res.errors[j].tag = kind}}
NoteOf(kind) == {res.errors[i].albums : i \in {j \in DOMAIN res.errors : res.errors[j].tag = kind}}

\* C11: validate_albums_exist raises its aggregated error exactly when the
\* remote reports a configured personal or shared album missing; the error
\* names exactly the missing albums of both lists and, for each list with a
\* missing album, the full set of albums the remote holds; an empty list is
\* never sent to the remote and adds nothing to the error.
C11_AlbumCrossValidation ==
    res.op = "validate_albums_exist" =>
        LET missingPersonal == ReportedMissing(PersonalNames, res.remote[1])
            missingShared == ReportedMissing(SharedNames, res.remote[2])
        IN  /\ res.raised <=> (missingPersonal \cup missingShared # {})
            /\ Named("Personal") = missingPersonal
            /\ Named("Shared") = missingShared
            /\ NoteOf("personal_note")
                   = IF missingPersonal = {} THEN {} ELSE {res.remote[1]}
            /\ NoteOf("shared_note")
                   = IF missingShared = {} THEN {} ELSE {res.remote[2]}
            /\ res.queries = SelectSeq(<<PersonalNames, SharedNames>>,
                                       LAMBDA names : names # <<>>)

\* a personal list with a typo and a shared list with a missing album: one
\* error names both, each with the albums that exist
C11_Witness ==
    /\ res.op = "validate_albums_exist"
    /\ PersonalNames = <<"Trip", "Typo">> /\ res.remote[1] = {"Trip"}
    /\ SharedNames = <<"Family">> /\ res.remote[2] = {"Trip"}
    /\ res.raised
    /\ res.errors = <<MissingEntry("Personal", "Typo"),
                      ExistingNote("personal_note", {"Trip"}),
                      MissingEntry("Shared", "Family"),
                      ExistingNote("shared_note", {"Trip"})>>

\* an empty personal list against a remote without albums: no query, no error
C11_WitnessEmptyList ==
    /\ res.op = "validate_albums_exist"
    /\ PersonalNames = <<>> /\ SharedNames = <<"Trip">>
    /\ res.remote = <<{}, {"Trip"}>>
    /\ res.queries = <<SharedNames>>
    /\ ~res.raised

\* an asset the decision reaches the cap check for
Eligible(e) ==
    /\ ~e.bad /\ e.in_albums /\ ~e.local
    /\ ~(cfg.max_file_size_mb > 0 /\ e.size > cfg.max_file_size_mb * BytesPerMB)
EligibleIds(entries) == Ids(SelectSeq(entries, Eligible))
\* the first n elements, all of them when n is 0
Capped(ids, n) == IF n > 0 /\ Len(ids) > n THEN SubSeq(ids, 1, n) ELSE ids

\* C12: the assets handed to download_photo are the eligible assets among
\* those enumerated so far, in enumeration order, cut at max_downloads when
\* it is positive; the pass stops at the first eligible asset beyond the
\* cap, and once stopped it attempts nothing more; with max_downloads = 0 a
\* pass that reaches the end has attempted every eligible asset; only
\* attempted assets are requested or written, and without DRY_RUN every
\* attempt that did not fail left the complete file.
C12_DownloadCap ==
    /\ [](/\ sync.attempted
               = Capped(EligibleIds(SubSeq(library, 1, gen.pos)), cfg.max_downloads)
          /\ sync.accepted = Len(sync.attempted)
          /\ sync.status = "stopped"
               => /\ cfg.max_downloads > 0
                  /\ Len(sync.attempted) = cfg.max_downloads
                  /\ Len(EligibleIds(SubSeq(library, 1, gen.pos))) > cfg.max_downloads
          /\ (cfg.max_downloads = 0 /\ gen.status = "exhausted")
               => sync.attempted = EligibleIds(library)
          /\ (cfg.max_downloads > 0 /\ gen.status = "exhausted")
               => Len(EligibleIds(library)) <= cfg.max_downloads
          /\ \A i \in 1..MaxPhotos :
                /\ (i \in requested \/ fs[i].state \notin {"absent", "old"})
                      => \E j \in DOMAIN sync.attempted : sync.attempted[j] = i
                /\ ((\E j \in DOMAIN sync.attempted : sync.attempted[j] = i)
                        /\ i \notin sync.failed /\ ~cfg.dry_run)
                      => fs[i] = File("complete", i))
    /\ [][sync.status = "stopped" => UNCHANGED <<sync, fs, requested>>]_vars

\* max_downloads = 2 and three eligible assets: the first two were
\* downloaded, the pass stopped at the third and never requested it
C12_Witness ==
    /\ cfg.max_downloads = 2 /\ ~cfg.dry_run
    /\ Len(library) = 3
    /\ \A i \in 1..3 : Eligible(library[i])
    /\ sync.status = "stopped"
    /\ sync.attempted = <<1, 2>>
    /\ fs[1] = File("complete", 1) /\ fs[2] = File("complete", 2)
    /\ fs[3] = File("absent", 0)
    /\ requested = {1, 2}

\* the configured numbers, compared exactly: lit <= 0, and
\* maintenance * 60 <= sync after multiplying both sides by the powers of ten
DecLeZero(lit) == lit.num <= 0
DecTimes60Le(m, s) == m.num * 60 * 10^s.scale <= s.num * 10^m.scale
IntervalMessages == {MSG_SYNC_INTERVAL, MSG_MAINTENANCE_INTERVAL, MSG_INTERVAL_RATIO}
WholeNumber(lit) == lit.scale = 0

\* C13: validate() reports an interval violation for every configuration
\* with SYNC_INTERVAL_MINUTES <= 0, MAINTENANCE_INTERVAL_HOURS <= 0 or
\* MAINTENANCE_INTERVAL_HOURS * 60 <= SYNC_INTERVAL_MINUTES (equality
\* included), and none when both are positive and the product is greater.
C13_IntervalInvariant ==
    res.op = "validate" =>
        LET s == cfg.SYNC_INTERVAL_MINUTES
            m == cfg.MAINTENANCE_INTERVAL_HOURS
            violated == DecLeZero(s) \/ DecLeZero(m) \/ DecTimes60Le(m, s)
        IN  /\ violated => \E msg \in IntervalMessages : InErrors(msg)
            /\ ~violated => \A msg \in IntervalMessages : ~InErrors(msg)

\* the call that follows a failed authenticate(): is_authenticated answers
\* false, and list_photos does not start yielding
NoSessionAfterFailure ==
    /\ res'.op = "is_authenticated" => ~res'.ret
    /\ res'.op = "list_photos" => gen'.status # "running"

\* C14: when the most recent authenticate() returned false, is_authenticated
\* called right after it is false and does not raise, and list_photos
\* yields nothing: no session is left behind.
C14_FailedAuthLeavesNoSession ==
    [][(res.op = "authenticate" /\ ~res.ret)
        => /\ NoSessionAfterFailure
           /\ res'.op = "is_authenticated" => ~res'.raised]_vars

\* C14 for a remote whose photo service answers whenever it is read: the
\* session of an earlier successful authenticate() outlives a failed one
C14_NoStaleSession ==
    [][(res.op = "authenticate" /\ ~res.ret /\ photosState = "ok")
        => NoSessionAfterFailure]_vars

IcloudStore == keyring[ICLOUD_KEYRING_SERVICE_NAME]
\* a delete_credentials call in which no keyring call raised
DeleteWentThrough ==
    res'.op = "icloud_delete_credentials" /\ res'.fails = NoFails
\* what the claim promises of such a call, and of the has-stored check
\* that follows it
DeletedEverything ==
    /\ DeleteWentThrough => (res'.ret /\ IcloudStore' = EmptyStore)
    /\ (res.op = "icloud_delete_credentials" /\ res.fails = NoFails
            /\ res'.op = "icloud_has_stored_credentials" /\ res'.fails = NoFails)
        => (~res'.raised /\ ~res'.ret)

\* C15: whatever was stored before, and under whichever identities, a
\* delete_credentials call returns true and leaves no entry in the
\* namespace, and has_stored_credentials is false after it.
C15_DeleteLeavesNothing ==
    [][DeletedEverything]_vars

\* the store holds nothing under the empty key, and its identity entry is
\* absent or an ordinary name
OrdinaryStore ==
    /\ IcloudStore[""] = None
    /\ IcloudIdentity \in {None, Some("alice"), Some("bob")}

\* C15 for stores made under ordinary identities (not "" and not the fixed
\* key name): the secret stored under an earlier identity outlives the delete
C15_NoSecretOfEarlierIdentity ==
    [][(OrdinaryStore /\ DeleteWentThrough) => IcloudStore' = EmptyStore]_vars

====
